---------------------------- MODULE Spec2Model ----------------------------
(***************************************************************************)
(* Model of the ingredient quantity scaler of Chefbyte-ui/utils.ts:        *)
(* parseIngredientQuantity, formatQuantity and scaleIngredientText.        *)
(*                                                                         *)
(* Strings are sequences of one-character strings.  A JavaScript number is *)
(* a record [k, n, d]: k = "fin" is the rational n/d (d > 0, lowest        *)
(* terms), k = "nan", "inf", "ninf" are NaN, Infinity and -Infinity, and   *)
(* k = "null" is the parser's null.  Arithmetic on finite numbers is exact *)
(* rational arithmetic: the inputs of every specification are restricted   *)
(* (predicate Stable) to values that do not lie exactly on one of          *)
(* formatQuantity's decision thresholds, where the outcome of the IEEE-754 *)
(* computation depends on the binary representation error of the decimal   *)
(* and not on the value the decimal denotes.  k = "min" is the smallest    *)
(* positive number, which stands for the positive numbers a number of      *)
(* servings cannot be divided by without overflow.                         *)
(*                                                                         *)
(* The App component of part_007 and its ResultsView are modelled with     *)
(* the rendering of React 18 (README.md:238).  The handler of a click or   *)
(* a change is rendered when it returns.  The updates that a promise       *)
(* continuation or a timer makes wait in pending, one queue for each       *)
(* state, for a render in a later task (Render); a handler that runs       *)
(* before that render is rendered without them, and a value it sets        *)
(* replaces the updates waiting for the same state, as does a value that   *)
(* is queued behind them.  Effects run in a task after the render that     *)
(* scheduled them, or when the next render starts: the app is opened in    *)
(* the state after its first render, with its mount effects pending.       *)
(***************************************************************************)
EXTENDS Integers, Sequences, FiniteSets

VARIABLES
  argLine,    \* the ingredient line a call is made with
  argFactor,  \* the factor a call of scaleIngredientText is made with
  argValue,   \* the value a call of formatQuantity is made with
  pc,         \* "start", or the function that has returned
  out,        \* what the call returned
  appState,        \* 'idle', 'analyzing', 'results' or 'error'
  preferences,     \* the user's preferences: servings
  inventory,       \* the ingredients the app remembers
  results,         \* the response on display, or Null
  error,           \* the error on display, or Null
  isRegenerating,  \* generateAlternatives is awaited
  history,         \* the responses of earlier analyses, newest first
  showHistory,     \* the history sidebar is open
  servings,        \* the servings state of ResultsView
  localStorage,    \* the item chefbyte_history, or Null
  analyses,        \* the calls of handleAnalyze that await generateMealPlan
  timeouts,        \* the callbacks of setTimeout that have not run
  alternatives,    \* a call of handleGenerateAlternatives awaits its response
  started,         \* the number of analyses started
  loadDue,         \* the effect that loads the history is pending
  saveDue,         \* the effect that saves the history is pending
  resetDue,        \* the effect that resets the servings is pending
  resetQueued,     \* the update the reset effect queued awaits its render
  pending          \* the updates of continuations and timers that await their render

appVars ==
  <<appState, preferences, inventory, results, error, isRegenerating, history,
    showHistory, servings, localStorage, analyses, timeouts, alternatives, started,
    loadDue, saveDue, resetDue, resetQueued, pending>>

callVars == <<argLine, argFactor, argValue, pc, out>>

vars == <<callVars, appVars>>

---------------------------------------------------------------------------
(* Bounds of the model. *)

\* formatter inputs are the thousandths k/1000 with 0 <= k < (MaxWhole+1)*1000
MaxWhole == 10
\* digits used to build quantity tokens: 0..MaxDigit
MaxDigit == 3
\* analyses started in one run of the app
MaxAnalyses == 2

---------------------------------------------------------------------------
(* JavaScript numbers. *)

Abs(i) == IF i < 0 THEN -i ELSE i

RECURSIVE GCD(_, _)
GCD(a, b) == IF b = 0 THEN a ELSE GCD(b, a % b)

NaN == [k |-> "nan", n |-> 0, d |-> 1]
Infinity == [k |-> "inf", n |-> 1, d |-> 1]
NegInfinity == [k |-> "ninf", n |-> -1, d |-> 1]
Null == [k |-> "null", n |-> 0, d |-> 1]

\* Number.MIN_VALUE, 5e-324: a positive number so small that a number of
\* servings divided by it exceeds Number.MAX_VALUE, as it does for every
\* positive number below servings / Number.MAX_VALUE
MinValue == [k |-> "min", n |-> 1, d |-> 1]

\* the finite number n/d, d # 0, in lowest terms
Rat(n, d) ==
  LET g == GCD(Abs(n), Abs(d))
      s == IF d < 0 THEN -1 ELSE 1
  IN  [k |-> "fin", n |-> (s * n) \div g, d |-> (s * d) \div g]

IsFin(x) == x.k = "fin"
Sign(x) == IF x.n > 0 THEN 1 ELSE IF x.n < 0 THEN -1 ELSE 0

\* x * y  (utils.ts:64)
NumMul(x, y) ==
  IF x.k = "nan" \/ y.k = "nan" THEN NaN
  ELSE IF IsFin(x) /\ IsFin(y) THEN Rat(x.n * y.n, x.d * y.d)
  ELSE IF Sign(x) * Sign(y) = 0 THEN NaN
  ELSE IF Sign(x) * Sign(y) > 0 THEN Infinity ELSE NegInfinity

\* x / y  (utils.ts:36, ResultsView.tsx:126); a zero has no sign here
NumDiv(x, y) ==
  IF x.k = "nan" \/ y.k = "nan" THEN NaN
  ELSE IF IsFin(x) /\ IsFin(y)
  THEN IF y.n # 0 THEN Rat(x.n * y.d, x.d * y.n)
       ELSE IF x.n = 0 THEN NaN
       ELSE IF x.n > 0 THEN Infinity ELSE NegInfinity
  ELSE IF IsFin(x) THEN Rat(0, 1)
  ELSE IF IsFin(y)
  THEN IF (x = Infinity) = (y.n >= 0) THEN Infinity ELSE NegInfinity
  ELSE NaN

NumAdd(x, y) == Rat(x.n * y.d + y.n * x.d, x.d * y.d)
NumSub(x, y) ==
  IF IsFin(x) /\ IsFin(y) THEN Rat(x.n * y.d - y.n * x.d, x.d * y.d) ELSE NaN

\* Math.abs
NumAbs(x) ==
  IF IsFin(x) THEN Rat(Abs(x.n), x.d)
  ELSE IF x.k = "nan" THEN NaN ELSE Infinity

\* x < y; false when either side is NaN
NumLt(x, y) ==
  IF x.k = "nan" \/ y.k = "nan" THEN FALSE
  ELSE IF IsFin(x) /\ IsFin(y) THEN x.n * y.d < y.n * x.d
  ELSE IF x.k = "ninf" THEN y.k # "ninf"
  ELSE IF y.k = "inf" THEN x.k # "inf"
  ELSE FALSE

\* Math.floor of a finite number (\div rounds towards minus infinity)
Floor(x) == x.n \div x.d

\* Math.ceil of a finite number
Ceil(x) == -((-x.n) \div x.d)

\* Math.round of a finite number: floor(x + 0.5)
Round(x) == (2 * x.n + x.d) \div (2 * x.d)

\* x % 1: the remainder has the sign of the dividend; NaN for non-finite x
Rem1(x) ==
  IF ~IsFin(x) THEN NaN
  ELSE IF x.n >= 0 THEN Rat(x.n % x.d, x.d)
  ELSE Rat(-((-x.n) % x.d), x.d)

---------------------------------------------------------------------------
(* Strings. *)

Digit == <<"0", "1", "2", "3", "4", "5", "6", "7", "8", "9">>

DigitChars == {Digit[i] : i \in 1..10}
\* the vertical tab, U+000B
VerticalTab == ""

\* the no-break space, U+00A0
NoBreakSpace == " "

\* the Ogham space mark, U+1680
OghamSpace == " "

\* the byte order mark, U+FEFF
ByteOrderMark == "﻿"

\* the characters of \s and of trim: space, tab, line feed, vertical tab,
\* form feed, carriage return, no-break space, Ogham space mark and byte
\* order mark. U+2000 to U+200A, U+2028, U+2029, U+202F, U+205F and U+3000
\* belong to \s as well and are no characters of a string here.
SpaceChars ==
  {" ", "\t", "\n", VerticalTab, "\f", "\r", NoBreakSpace, OghamSpace, ByteOrderMark}

IsDigit(c) == c \in DigitChars
IsSpace(c) == c \in SpaceChars
\* the line terminators, which . does not match: line feed and carriage
\* return (U+2028 and U+2029 are no characters of a string here)
LineTerminators == {"\n", "\r"}

DigitVal(c) == (CHOOSE i \in 1..10 : Digit[i] = c) - 1

\* Number.prototype.toString of a natural number
RECURSIVE NatToString(_)
NatToString(i) ==
  IF i < 10 THEN <<Digit[i + 1]>>
  ELSE NatToString(i \div 10) \o <<Digit[(i % 10) + 1]>>

\* Number.prototype.toString of an integer
IntToString(i) == IF i < 0 THEN <<"-">> \o NatToString(-i) ELSE NatToString(i)

\* toFixed(1) that cuts the digits behind the first decimal instead of rounding
toFixedTruncating(x) ==
  IF x.k = "nan" THEN <<"N", "a", "N">>
  ELSE IF x.k = "inf" THEN <<"I", "n", "f", "i", "n", "i", "t", "y">>
  ELSE IF x.k = "ninf" THEN <<"-", "I", "n", "f", "i", "n", "i", "t", "y">>
  ELSE LET n == (10 * Abs(x.n)) \div x.d
           m == NatToString(n \div 10) \o <<".", Digit[(n % 10) + 1]>>
       IN  IF x.n < 0 THEN <<"-">> \o m ELSE m

\* Number.prototype.toFixed(1): the multiple n/10 nearest to |x|, the larger n on
\* a tie, written with one decimal, behind the sign of x
toFixed1(x) ==
  IF x.k = "nan" THEN <<"N", "a", "N">>
  ELSE IF x.k = "inf" THEN <<"I", "n", "f", "i", "n", "i", "t", "y">>
  ELSE IF x.k = "ninf" THEN <<"-", "I", "n", "f", "i", "n", "i", "t", "y">>
  ELSE LET a == Abs(x.n)
           n == (20 * a + x.d) \div (2 * x.d)
           m == NatToString(n \div 10) \o <<".", Digit[(n % 10) + 1]>>
       IN  IF x.n < 0 THEN <<"-">> \o m ELSE m

\* the replace left out: a trailing ".0" stays
KeepDotZero(s) == s

\* s.replace(/\.0$/, '')
StripDotZero(s) ==
  IF Len(s) >= 2 /\ s[Len(s) - 1] = "." /\ s[Len(s)] = "0"
  THEN SubSeq(s, 1, Len(s) - 2)
  ELSE s

---------------------------------------------------------------------------
(* formatQuantity, utils.ts:44-56. *)

\* the tolerances and the common fractions of utils.ts:46-53
IntegerTolerance == Rat(5, 100)
FractionTolerance == Rat(1, 10)
Half == Rat(5, 10)
Quarter == Rat(25, 100)
Third == Rat(33, 100)
ThreeQuarters == Rat(75, 100)

\* a tolerance of 0.2 around the fractions
NearWide(decimal, target) ==
  NumLt(NumAbs(NumSub(decimal, target)), Rat(2, 10))

\* Math.abs(decimal - target) < 0.1
Near(decimal, target) == NumLt(NumAbs(NumSub(decimal, target)), FractionTolerance)

\* a mixed number rendered as whole part, space, fraction
MixedFraction(value, bare, digits) ==
  IF Floor(value) = 0 THEN bare ELSE IntToString(Floor(value)) \o <<" ">> \o bare

\* the bare fraction whatever the whole part
FractionWithoutWhole(value, bare, digits) == bare

\* Math.floor(value) === 0 ? bare : `${Math.floor(value)}${digits}`
Fraction(value, bare, digits) ==
  IF Floor(value) = 0 THEN bare ELSE IntToString(Floor(value)) \o digits

formatQuantity(value) ==
  IF NumLt(NumAbs(Rem1(value)), IntegerTolerance) THEN IntToString(Round(value))
  ELSE LET decimal == Rem1(value)
       IN  IF Near(decimal, Half)
             THEN Fraction(value, <<"1", "/", "2">>, <<".", "5">>)
           ELSE IF Near(decimal, Quarter)
             THEN Fraction(value, <<"1", "/", "4">>, <<".", "2", "5">>)
           ELSE IF Near(decimal, Third)
             THEN Fraction(value, <<"1", "/", "3">>, <<".", "3", "3">>)
           ELSE IF Near(decimal, ThreeQuarters)
             THEN Fraction(value, <<"3", "/", "4">>, <<".", "7", "5">>)
           ELSE StripDotZero(toFixed1(value))

---------------------------------------------------------------------------
(* parseIngredientQuantity, utils.ts:16-42. *)

\* end of the longest run that starts at s[i] of characters in C (inside) or
\* not in C (~inside); i - 1 when s[i] is not such a character
RunEnd(s, i, C, inside) ==
  CHOOSE j \in (i - 1)..Len(s) :
    /\ \A k \in i..j : (s[k] \in C) = inside
    /\ (j = Len(s) \/ (s[j + 1] \in C) # inside)

\* String.prototype.trim
trim(s) ==
  IF \A i \in 1..Len(s) : IsSpace(s[i]) THEN <<>>
  ELSE LET first == RunEnd(s, 1, SpaceChars, TRUE) + 1
           last == CHOOSE j \in first..Len(s) :
                     ~IsSpace(s[j]) /\ \A k \in (j + 1)..Len(s) : IsSpace(s[k])
       IN  SubSeq(s, first, last)

\* \d+ from s[i]: the end of the match, i - 1 when there is none
DigitsEnd(s, i) == RunEnd(s, i, DigitChars, TRUE)

\* \d+(?:\.\d+)? from s[i]: the end of the match, i - 1 when there is none
NumberEnd(s, i) ==
  LET a == DigitsEnd(s, i)
  IN  IF a < i THEN i - 1
      ELSE IF a + 1 <= Len(s) /\ s[a + 1] = "." /\ DigitsEnd(s, a + 2) >= a + 2
        THEN DigitsEnd(s, a + 2)
      ELSE a

\* \d+\/\d+ from s[1]: the end of the match, 0 when there is none
FractionEnd(s) ==
  LET a == DigitsEnd(s, 1)
  IN  IF a >= 1 /\ a + 1 <= Len(s) /\ s[a + 1] = "/" /\ DigitsEnd(s, a + 2) >= a + 2
      THEN DigitsEnd(s, a + 2)
      ELSE 0

\* the range without the \s* around the dash
RangeEndNoSpace(s) ==
  LET a == NumberEnd(s, 1)
  IN  IF a >= 1 /\ a + 1 <= Len(s) /\ s[a + 1] = "-" /\ NumberEnd(s, a + 2) >= a + 2
      THEN NumberEnd(s, a + 2)
      ELSE 0

\* \d+(?:\.\d+)?\s*-\s*\d+(?:\.\d+)? from s[1]: the end of the match, 0 when
\* there is none
RangeEnd(s) ==
  LET a == NumberEnd(s, 1)
      w == RunEnd(s, a + 1, SpaceChars, TRUE)
      v == RunEnd(s, w + 2, SpaceChars, TRUE)
  IN  IF a >= 1 /\ w + 1 <= Len(s) /\ s[w + 1] = "-" /\ NumberEnd(s, v + 1) >= v + 1
      THEN NumberEnd(s, v + 1)
      ELSE 0

\* \s+ can match behind s[e]
SpaceFollows(s, e) == e >= 1 /\ e < Len(s) /\ IsSpace(s[e + 1])

\* (\S*) from s[i]: up to the first white space
NonSpaceStar(s, i) == SubSeq(s, i, RunEnd(s, i, SpaceChars, FALSE))

\* (.*) from s[i]: up to the first line terminator
DotStar(s, i) ==
  LET j == RunEnd(s, i, LineTerminators, FALSE)
  IN  SubSeq(s, i, j)

\* the match with \s in place of \s+ behind the quantity
MatchSingleSpace(s) ==
  LET e == IF SpaceFollows(s, NumberEnd(s, 1)) THEN NumberEnd(s, 1)
           ELSE IF SpaceFollows(s, FractionEnd(s)) THEN FractionEnd(s)
           ELSE IF SpaceFollows(s, RangeEnd(s)) THEN RangeEnd(s)
           ELSE 0
  IN  IF e = 0 THEN [matched |-> FALSE, g1 |-> <<>>, g2 |-> <<>>]
      ELSE [matched |-> TRUE,
            g1 |-> SubSeq(s, 1, e),
            g2 |-> DotStar(s, e + 2)]

\* s.match(regex) with the regex of utils.ts:19: the alternatives are tried in
\* order and each is followed by \s+(.*).  matched = FALSE is the null result.
Match(s) ==
  LET e == IF SpaceFollows(s, NumberEnd(s, 1)) THEN NumberEnd(s, 1)
           ELSE IF SpaceFollows(s, FractionEnd(s)) THEN FractionEnd(s)
           ELSE IF SpaceFollows(s, RangeEnd(s)) THEN RangeEnd(s)
           ELSE 0
  IN  IF e = 0 THEN [matched |-> FALSE, g1 |-> <<>>, g2 |-> <<>>]
      ELSE [matched |-> TRUE,
            g1 |-> SubSeq(s, 1, e),
            g2 |-> DotStar(s, RunEnd(s, e + 1, SpaceChars, TRUE) + 1)]

\* s.includes(c)
includes(s, c) == \E i \in 1..Len(s) : s[i] = c

\* s.split(c): the first two pieces (the destructuring of utils.ts:31, 35
\* takes no more)
split(s, c) ==
  LET i == CHOOSE i \in 1..Len(s) : s[i] = c /\ \A k \in 1..(i - 1) : s[k] # c
      r == SubSeq(s, i + 1, Len(s))
      j == RunEnd(r, 1, {c}, FALSE)
  IN  <<SubSeq(s, 1, i - 1), SubSeq(r, 1, j)>>

\* the natural number a digit string denotes
RECURSIVE DigitsValue(_)
DigitsValue(s) ==
  IF s = <<>> THEN 0
  ELSE 10 * DigitsValue(SubSeq(s, 1, Len(s) - 1)) + DigitVal(s[Len(s)])

RECURSIVE Pow10(_)
Pow10(i) == IF i = 0 THEN 1 ELSE 10 * Pow10(i - 1)

\* Number(s) and parseFloat(s) of digits, or digits.digits, between optional
\* white space: the only strings the regex hands to them
Number(s) ==
  LET t == trim(s)
      a == DigitsEnd(t, 1)
  IN  IF a = Len(t) THEN Rat(DigitsValue(t), 1)
      ELSE NumAdd(Rat(DigitsValue(SubSeq(t, 1, a)), 1),
                  Rat(DigitsValue(SubSeq(t, a + 2, Len(t))), Pow10(Len(t) - a - 1)))

parseFloat(s) == Number(s)

\* start + end / 2: the parentheses of utils.ts:32 dropped
RangeMeanUnparenthesised(pieces) ==
  NumAdd(Number(pieces[1]), NumDiv(Number(pieces[2]), Rat(2, 1)))

\* (start + end) / 2 of the pieces of a range, utils.ts:31-32
RangeMean(pieces) ==
  NumDiv(NumAdd(Number(pieces[1]), Number(pieces[2])), Rat(2, 1))

\* num / den of the pieces of a fraction, utils.ts:35-36
FractionQuotient(pieces) == NumDiv(Number(pieces[1]), Number(pieces[2]))

\* the value of the matched quantity, utils.ts:27-39
QuantityValue(numStr) ==
  IF includes(numStr, "-") THEN RangeMean(split(numStr, "-"))
  ELSE IF includes(numStr, "/") THEN FractionQuotient(split(numStr, "/"))
  ELSE parseFloat(numStr)

\* the result built from the match without the guard of utils.ts:22:
\* match[1] of null is read
ParsedUnguarded(ingredient, match) ==
  IF ~match.matched THEN [threw |-> TRUE, value |-> Null, text |-> <<>>]
  ELSE [threw |-> FALSE, value |-> QuantityValue(match.g1), text |-> match.g2]

\* the trimmed line, which the regex was matched against, returned as the
\* text when there is no match
ParsedTrimmedText(ingredient, match) ==
  IF ~match.matched THEN [threw |-> FALSE, value |-> Null, text |-> trim(ingredient)]
  ELSE [threw |-> FALSE, value |-> QuantityValue(match.g1), text |-> match.g2]

\* utils.ts:22-41, the result built from the match; threw = TRUE would stand
\* for the TypeError of reading match[1] of null, which the guard excludes
Parsed(ingredient, match) ==
  IF ~match.matched THEN [threw |-> FALSE, value |-> Null, text |-> ingredient]
  ELSE [threw |-> FALSE, value |-> QuantityValue(match.g1), text |-> match.g2]

parseIngredientQuantity(ingredient) == Parsed(ingredient, Match(trim(ingredient)))

---------------------------------------------------------------------------
(* scaleIngredientText, utils.ts:58-66. *)

One == Rat(1, 1)

\* `${formatQuantity(scaledValue)} ${text}`
Rendered(scaledValue, text) == formatQuantity(scaledValue) \o <<" ">> \o text

\* the white space of the input kept between quantity and remainder instead
\* of one space
ScaledKeepingSeparator(ingredient, factor, parsed) ==
  IF parsed.threw THEN [threw |-> TRUE, str |-> <<>>]
  ELSE IF parsed.value = Null THEN [threw |-> FALSE, str |-> ingredient]
  ELSE [threw |-> FALSE,
        str |-> formatQuantity(NumMul(parsed.value, factor))
                  \o SubSeq(trim(ingredient),
                            Len(Match(trim(ingredient)).g1) + 1,
                            Len(trim(ingredient)))]

\* the trimmed line returned when no quantity is found
ScaledTrimmedPassThrough(ingredient, factor, parsed) ==
  IF parsed.threw THEN [threw |-> TRUE, str |-> <<>>]
  ELSE IF parsed.value = Null THEN [threw |-> FALSE, str |-> trim(ingredient)]
  ELSE [threw |-> FALSE, str |-> Rendered(NumMul(parsed.value, factor), parsed.text)]

\* utils.ts:61-65, the result built from the parser's
ScaledFrom(ingredient, factor, parsed) ==
  IF parsed.threw THEN [threw |-> TRUE, str |-> <<>>]
  ELSE IF parsed.value = Null THEN [threw |-> FALSE, str |-> ingredient]
  ELSE [threw |-> FALSE, str |-> Rendered(NumMul(parsed.value, factor), parsed.text)]

\* the scaler without the fast path of utils.ts:59
scaleWithoutFastPath(ingredient, factor) ==
  ScaledFrom(ingredient, factor, parseIngredientQuantity(ingredient))

scaleIngredientText(ingredient, factor) ==
  IF factor = One THEN [threw |-> FALSE, str |-> ingredient]
  ELSE ScaledFrom(ingredient, factor, parseIngredientQuantity(ingredient))

---------------------------------------------------------------------------
(* The App component (part_007) and its ResultsView (ResultsView.tsx). *)

\* history.slice(0, 20), part_007:46 and :70
HistoryLimit == 20
\* useState of preferences, part_007:17
DefaultServings == 2
\* recipe.baseServings || 2, ResultsView.tsx:125
DefaultBase == 2
\* the slider of ResultsView.tsx:93-94
MinServings == 1
MaxServings == 12

\* the options of the servings select of the preferences panel, part_009:79
ServingsOptions == 1..6

\* a field a response does not have
Undefined == [k |-> "undefined", n |-> 0, d |-> 1]

\* the argument of setError, part_007:78
KitchenError ==
  "ChefByte encountered an issue communicating with the kitchen. Please check your ingredients and try again."

Ingredients == {"egg", "milk", "salt"}

\* recipes as the service returns them: baseServings and ingredient lines
RecipesForTwo ==
  <<[baseServings |-> Rat(2, 1), ingredients |-> <<<<"2", " ", "e", "g", "g", "s">>>>]>>
RecipesUnspecified ==
  <<[baseServings |-> Undefined, ingredients |-> <<<<"1", "/", "2", " ", "c", "u", "p", " ", "f", "l", "o", "u", "r">>>>],
    [baseServings |-> Rat(4, 1), ingredients |-> <<<<"2", " ", "e", "g", "g", "s">>>>]>>
RecipesZero ==
  <<[baseServings |-> Rat(0, 1), ingredients |-> <<<<"1", "-", "2", " ", "o", "n", "i", "o", "n", "s">>>>],
    [baseServings |-> Rat(5, 2), ingredients |-> <<<<"2", " ", "e", "g", "g", "s">>>>],
    [baseServings |-> Infinity, ingredients |-> <<<<"2", " ", "e", "g", "g", "s">>>>],
    [baseServings |-> MinValue, ingredients |-> <<<<"2", " ", "e", "g", "g", "s">>>>]>>
RecipesOther ==
  <<[baseServings |-> Rat(3, 1), ingredients |-> <<<<"s", "a", "l", "t">>>>]>>

\* responses of generateMealPlan
ResponseSamples ==
  <<[detectedIngredients |-> <<"egg">>, recipes |-> RecipesForTwo,
     receiptData |-> Undefined, reasoning |-> "eggs for two"],
    [detectedIngredients |-> <<"milk", "egg">>, recipes |-> RecipesUnspecified,
     receiptData |-> [storeName |-> "shop"], reasoning |-> "pancakes"],
    [detectedIngredients |-> <<"salt", "salt">>, recipes |-> RecipesZero,
     receiptData |-> Undefined, reasoning |-> "onions"]>>

\* what generateMealPlan resolves with in a run of the app: one response with
\* a receipt and one with a repeated ingredient and servings that are no
\* positive finite numbers
Responses == {ResponseSamples[2], ResponseSamples[3]}

\* what generateAlternatives resolves with
AlternativeResponses ==
  {[detectedIngredients |-> <<>>, recipes |-> RecipesOther, receiptData |-> Undefined,
    reasoning |-> "something else"]}

\* the response r as an object of its own: id tells the objects of different
\* analyses apart, 0 is an object no analysis made
Object(r, id) ==
  [id |-> id, detectedIngredients |-> r.detectedIngredients,
   recipes |-> r.recipes, receiptData |-> r.receiptData, reasoning |-> r.reasoning]

\* Array.from(new Set(s)): the first occurrences, in order
RECURSIVE Unique(_)
Unique(s) ==
  IF s = <<>> THEN <<>>
  ELSE IF \E i \in 1..(Len(s) - 1) : s[i] = s[Len(s)]
    THEN Unique(SubSeq(s, 1, Len(s) - 1))
  ELSE Append(Unique(SubSeq(s, 1, Len(s) - 1)), s[Len(s)])

\* part_007:62-65
MergedResults(response, newInventory, id) ==
  [Object(response, id) EXCEPT !.detectedIngredients = newInventory]

\* JSON.stringify writes a number that is not finite as null (part_007:46)
JsonNumber(x) == IF x \in {Infinity, NegInfinity, NaN} THEN Null ELSE x

RECURSIVE JsonRecipes(_)
JsonRecipes(recipes) ==
  IF Len(recipes) = 0 THEN <<>>
  ELSE <<[Head(recipes) EXCEPT !.baseServings = JsonNumber(@)]>>
         \o JsonRecipes(Tail(recipes))

\* what JSON.parse reads from what JSON.stringify wrote of h (part_007:46,
\* :36): a property that is undefined is left out and is undefined when it
\* is read again
RECURSIVE Stringified(_)
Stringified(h) ==
  IF Len(h) = 0 THEN <<>>
  ELSE <<[Head(h) EXCEPT !.recipes = JsonRecipes(@)]>> \o Stringified(Tail(h))

\* the n entries that n analyses of an earlier session made
RECURSIVE EarlierHistory(_)
EarlierHistory(n) ==
  IF n = 0 THEN <<>>
  ELSE <<MergedResults(ResponseSamples[(n % Len(ResponseSamples)) + 1],
                       Unique(ResponseSamples[(n % Len(ResponseSamples)) + 1].detectedIngredients),
                       100 + n)>>
         \o EarlierHistory(n - 1)

\* the history of n entries an earlier session left in localStorage
SavedHistory(n) == Stringified(EarlierHistory(n))

\* the values of localStorage's chefbyte_history when the app is opened:
\* nothing saved, or a full history
SavedStores == {Null, SavedHistory(HistoryLimit)}

\* the whole of s: no entry is dropped
sliceNothing(s, n) == s

\* s.slice(0, n)
slice0(s, n) == SubSeq(s, 1, IF Len(s) < n THEN Len(s) ELSE n)

\* the effect of part_007:44-48 on localStorage for the history h
Persisted(h, stored) ==
  IF Len(h) > 0 THEN Stringified(slice0(h, HistoryLimit)) ELSE stored

\* part_007:58, the merged inventory
MergedInventory(captured, response) ==
  Unique(captured \o response.detectedIngredients)

\* the new response put on display as it came
RegeneratedAsReturned(prev, newResponse) == Object(newResponse, 0)

\* part_007:98-102, the updater of setResults
Regenerated(prev, newResponse) ==
  IF prev # Null
  THEN [Object(newResponse, 0) EXCEPT !.detectedIngredients = prev.detectedIngredients,
                                      !.receiptData = prev.receiptData]
  ELSE Object(newResponse, 0)

\* part_007:242, ResultsView is rendered
ViewShown(state, data) == state = "results" /\ data # Null

\* the servings state of ResultsView in a commit: userPrefs.servings when
\* the view is mounted in it (ResultsView.tsx:25), the state it had otherwise
ServingsAfter(shownBefore, shownAfter, preferred, current) ==
  IF shownBefore /\ shownAfter THEN current ELSE preferred

\* the effect of ResultsView.tsx:28-30 is scheduled by a commit that mounts
\* the view or hands it new data (userPrefs.servings changes only while the
\* view is not rendered)
ResetDue(shownBefore, shownAfter, newData) ==
  shownAfter /\ (~shownBefore \/ newData)

\* localStorage once the effect of part_007:44-48 has run, if it is pending
FlushedStorage == IF saveDue THEN Persisted(history, localStorage) ELSE localStorage

\* servings once the update of the effect of ResultsView.tsx:28-30 is
\* rendered, if the effect is pending or its update queued
FlushedServings ==
  IF resetDue \/ resetQueued THEN preferences.servings ELSE servings

\* no update awaits its render: one queue for each state of part_007:12-29
\* that a continuation, a timer or an effect sets; a value that is queued
\* replaces what waited before it, an updater is queued behind it
NoUpdates ==
  [inventory |-> <<>>, results |-> <<>>, history |-> <<>>, appState |-> <<>>,
   error |-> <<>>, isRegenerating |-> <<>>]

\* the state after the values queued for it
Latest(queue, state) == IF Len(queue) = 0 THEN state ELSE queue[Len(queue)]

\* results after the updates queued for it: a value (part_007:67) or the
\* updater of part_007:98-102
RECURSIVE ResultsAfter(_, _)
ResultsAfter(queue, state) ==
  IF Len(queue) = 0 THEN state
  ELSE IF Head(queue).fn
    THEN ResultsAfter(Tail(queue), Regenerated(state, Head(queue).val))
  ELSE ResultsAfter(Tail(queue), Head(queue).val)

\* history after the updates queued for it: the value of part_007:36 or
\* the updater of part_007:70
RECURSIVE HistoryAfter(_, _)
HistoryAfter(queue, state) ==
  IF Len(queue) = 0 THEN state
  ELSE IF Head(queue).fn
    THEN HistoryAfter(Tail(queue), slice0(<<Head(queue).val>> \o state, HistoryLimit))
  ELSE HistoryAfter(Tail(queue), Head(queue).val)

\* the updates that wait once the effect of part_007:32-41 has run, if it is
\* pending: it queues the history it reads from a stored item
FlushedUpdates ==
  IF loadDue /\ localStorage # Null
  THEN [pending EXCEPT !.history = Append(@, [fn |-> FALSE, val |-> localStorage])]
  ELSE pending

\* the commit of a render at default priority (React 18, README.md:238): the
\* effects still pending run when the render starts and the update of the
\* reset effect is rendered with the others; the effects this commit
\* schedules run in a later task
Committed(historyChanged, newData) ==
  /\ loadDue' = FALSE
  /\ localStorage' = FlushedStorage
  /\ saveDue' = historyChanged
  /\ servings' = ServingsAfter(ViewShown(appState, results), ViewShown(appState', results'),
                               preferences'.servings, FlushedServings)
  /\ resetDue' = ResetDue(ViewShown(appState, results), ViewShown(appState', results'),
                          newData)
  /\ resetQueued' = FALSE

\* the commit of updates made by the handler of a click or a change event
\* (React 18: synchronous priority): the effects still pending run when the
\* render starts and the effects of this commit when it ends, and the update
\* a reset effect queues has default priority: it is left out of this render
\* and awaits a later one. An update that would leave servings as they are
\* is not kept.
CommittedInEvent(newData) ==
  /\ loadDue' = FALSE
  /\ localStorage' = FlushedStorage
  /\ saveDue' = FALSE
  /\ servings' = ServingsAfter(ViewShown(appState, results), ViewShown(appState', results'),
                               preferences'.servings, servings)
  /\ resetDue' = FALSE
  /\ resetQueued' =
       /\ ViewShown(appState', results')
       /\ servings' # preferences'.servings
       /\ \/ resetDue
          \/ resetQueued
          \/ ResetDue(ViewShown(appState, results), ViewShown(appState', results'),
                      newData)

\* ResultsView.tsx:125
Base(recipe) ==
  IF recipe.baseServings \in {Undefined, Null, NaN, Rat(0, 1)} THEN Rat(DefaultBase, 1)
  ELSE recipe.baseServings

\* ResultsView.tsx:126, for n >= 1: the quotient by the smallest positive
\* number overflows to Infinity
scaleFactor(n, recipe) ==
  IF Base(recipe) = MinValue THEN Infinity ELSE NumDiv(Rat(n, 1), Base(recipe))

\* the app after its first render, part_007:12-29, opened with stored in
\* localStorage: the effects of :32-41 and :44-48 are pending
AppMounted(stored) ==
  /\ appState = "idle"
  /\ preferences = [servings |-> DefaultServings]
  /\ inventory = <<>>
  /\ results = Null
  /\ error = Null
  /\ isRegenerating = FALSE
  /\ history = <<>>
  /\ showHistory = FALSE
  /\ servings = DefaultServings
  /\ localStorage = stored
  /\ analyses = {}
  /\ timeouts = 0
  /\ alternatives = FALSE
  /\ started = 0
  /\ loadDue = TRUE
  /\ saveDue = TRUE
  /\ resetDue = FALSE
  /\ resetQueued = FALSE
  /\ pending = NoUpdates

\* the pending effects run in a task after the commit that scheduled them:
\* the stored history is read and queued (part_007:32-41), the history is
\* saved (part_007:44-48) and the reset of the servings is queued
\* (ResultsView.tsx:28-30), unless it would change nothing
Effects ==
  /\ loadDue \/ saveDue \/ resetDue
  /\ pending' = FlushedUpdates
  /\ loadDue' = FALSE
  /\ localStorage' = FlushedStorage
  /\ saveDue' = FALSE
  /\ resetDue' = FALSE
  /\ resetQueued' = (resetDue /\ servings # preferences.servings)
  /\ UNCHANGED <<callVars, appState, preferences, inventory, results, error, isRegenerating,
                 history, showHistory, servings, analyses, timeouts, alternatives,
                 started>>

\* the render, in a task of its own, of the updates that continuations,
\* timers and effects (part_007:36, ResultsView.tsx:29) queued: each state
\* takes the updates of its queue in their order
Render ==
  /\ \/ resetQueued
     \/ \E hook \in DOMAIN pending : Len(pending[hook]) > 0
  /\ pending' = NoUpdates
  /\ UNCHANGED <<callVars, preferences, showHistory, analyses, timeouts, alternatives,
                 started>>
  /\ appState' = Latest(pending.appState, appState)
  /\ inventory' = Latest(pending.inventory, inventory)
  /\ results' = ResultsAfter(pending.results, results)
  /\ history' = HistoryAfter(FlushedUpdates.history, history)
  /\ isRegenerating' = Latest(pending.isRegenerating, isRegenerating)
  /\ error' = Latest(pending.error, error)
  /\ Committed(Len(FlushedUpdates.history) > 0, Len(pending.results) > 0)

\* handleAnalyze up to its await, part_007:50-55: InputArea is rendered when
\* the app is idle (:203, :233); the call keeps the inventory of its render,
\* and the values it sets replace the updates that wait for the same states
handleAnalyze ==
  /\ appState = "idle"
  /\ started < MaxAnalyses
  /\ appState' = "analyzing"
  /\ error' = Null
  /\ analyses' = analyses \cup {[id |-> started + 1, inventory |-> inventory]}
  /\ started' = started + 1
  /\ pending' = [FlushedUpdates EXCEPT !.appState = <<>>, !.error = <<>>]
  /\ UNCHANGED <<callVars, preferences, inventory, results, isRegenerating, history,
                 showHistory, timeouts, alternatives>>
  /\ CommittedInEvent(FALSE)

\* generateMealPlan resolves for the call a, part_007:57-75: the
\* continuation queues its updates and arms the timer
AnalyzeResolved(a, response) ==
  /\ pending' =
       [pending EXCEPT
          !.inventory = <<MergedInventory(a.inventory, response)>>,
          !.results =
            <<[fn |-> FALSE,
               val |-> MergedResults(response, MergedInventory(a.inventory, response),
                                     a.id)]>>,
          !.history =
            Append(@, [fn |-> TRUE,
                       val |-> MergedResults(response,
                                             MergedInventory(a.inventory, response),
                                             a.id)])]
  /\ timeouts' = timeouts + 1
  /\ analyses' = analyses \ {a}
  /\ UNCHANGED <<callVars, appState, preferences, inventory, results, error,
                 isRegenerating, history, showHistory, servings, localStorage,
                 alternatives, started, loadDue, saveDue,
                 resetDue, resetQueued>>

AnalyzeResolves ==
  \E a \in analyses : \E response \in Responses : AnalyzeResolved(a, response)

\* generateMealPlan rejects, part_007:76-80
AnalyzeRejects ==
  \E a \in analyses :
    /\ pending' = [pending EXCEPT !.error = <<KitchenError>>,
                                  !.appState = <<"error">>]
    /\ analyses' = analyses \ {a}
    /\ UNCHANGED <<callVars, appState, preferences, inventory, results, error,
                   isRegenerating, history, showHistory, servings, localStorage,
                   timeouts, alternatives, started, loadDue, saveDue,
                 resetDue, resetQueued>>

\* the callback of setTimeout, part_007:73-75
TimeoutFires ==
  /\ timeouts > 0
  /\ timeouts' = timeouts - 1
  /\ pending' = [pending EXCEPT !.appState = <<"results">>]
  /\ UNCHANGED <<callVars, appState, preferences, inventory, results, error,
                 isRegenerating, history, showHistory, servings, localStorage, analyses,
                 alternatives, started, loadDue, saveDue,
                 resetDue, resetQueued>>

\* part_007:112-117, the button of ResultsView.tsx:139-146
handleStartOver ==
  /\ ViewShown(appState, results)
  /\ appState' = "idle"
  /\ results' = Null
  /\ error' = Null
  /\ inventory' = <<>>
  /\ pending' = [FlushedUpdates EXCEPT !.appState = <<>>, !.results = <<>>, !.error = <<>>,
                                !.inventory = <<>>]
  /\ UNCHANGED <<callVars, preferences, isRegenerating, history, showHistory,
                 analyses, timeouts, alternatives, started>>
  /\ CommittedInEvent(FALSE)

\* Go Home that forgets the inventory as Start Over does
handleGoHomeForgetting ==
  /\ appState' = "idle"
  /\ results' = Null
  /\ error' = Null
  /\ showHistory' = FALSE
  /\ inventory' = <<>>
  /\ pending' = [FlushedUpdates EXCEPT !.appState = <<>>, !.results = <<>>, !.error = <<>>,
                                !.inventory = <<>>]
  /\ UNCHANGED <<callVars, preferences, isRegenerating, history,
                 analyses, timeouts, alternatives, started>>
  /\ CommittedInEvent(FALSE)

\* part_007:120-126: the header (:148) offers it in every state
handleGoHome ==
  /\ appState' = "idle"
  /\ results' = Null
  /\ error' = Null
  /\ showHistory' = FALSE
  /\ pending' = [FlushedUpdates EXCEPT !.appState = <<>>, !.results = <<>>, !.error = <<>>]
  /\ UNCHANGED <<callVars, preferences, inventory, isRegenerating, history,
                 analyses, timeouts, alternatives, started>>
  /\ CommittedInEvent(FALSE)

\* the History button, part_007:221-231
ToggleHistory ==
  /\ appState = "idle"
  /\ Len(history) > 0
  /\ showHistory' = ~showHistory
  /\ UNCHANGED <<callVars, appState, preferences, inventory, results, error, isRegenerating,
                 history, analyses, timeouts, alternatives, started>>
  /\ pending' = FlushedUpdates
  /\ CommittedInEvent(FALSE)

\* the backdrop and the close button of the sidebar, part_007:151-172
CloseHistory ==
  /\ showHistory
  /\ showHistory' = FALSE
  /\ UNCHANGED <<callVars, appState, preferences, inventory, results, error, isRegenerating,
                 history, analyses, timeouts, alternatives, started>>
  /\ pending' = FlushedUpdates
  /\ CommittedInEvent(FALSE)

\* part_007:129-133, an entry of the sidebar (:176-179)
handleLoadHistory ==
  \E i \in 1..Len(history) :
    /\ showHistory
    /\ results' = history[i]
    /\ appState' = "results"
    /\ showHistory' = FALSE
    /\ pending' = [FlushedUpdates EXCEPT !.results = <<>>, !.appState = <<>>]
    /\ UNCHANGED <<callVars, preferences, inventory, error, isRegenerating, history,
                   analyses, timeouts, alternatives, started>>
    /\ CommittedInEvent(history[i] # results)

\* handleGenerateAlternatives up to its await, part_007:83-95: the button of
\* ResultsView.tsx:103-110
handleGenerateAlternatives ==
  /\ ViewShown(appState, results)
  /\ ~isRegenerating
  /\ isRegenerating' = TRUE
  /\ alternatives' = TRUE
  /\ pending' = [FlushedUpdates EXCEPT !.isRegenerating = <<>>]
  /\ UNCHANGED <<callVars, appState, preferences, inventory, results, error, history,
                 showHistory, analyses, timeouts, started>>
  /\ CommittedInEvent(FALSE)

\* generateAlternatives resolves, part_007:97-102 and :107
AlternativesResolve ==
  \E newResponse \in AlternativeResponses :
    /\ alternatives
    /\ pending' = [pending EXCEPT
                     !.results = Append(@, [fn |-> TRUE, val |-> newResponse]),
                     !.isRegenerating = <<FALSE>>]
    /\ alternatives' = FALSE
    /\ UNCHANGED <<callVars, appState, preferences, inventory, results, error,
                   isRegenerating, history, showHistory, servings, localStorage, analyses,
                   timeouts, started, loadDue, saveDue,
                 resetDue, resetQueued>>

\* generateAlternatives rejects, part_007:104-107
AlternativesReject ==
  /\ alternatives
  /\ pending' = [pending EXCEPT !.isRegenerating = <<FALSE>>]
  /\ alternatives' = FALSE
  /\ UNCHANGED <<callVars, appState, preferences, inventory, results, error,
                 isRegenerating, history, showHistory, servings, localStorage, analyses,
                 timeouts, started, loadDue, saveDue,
                 resetDue, resetQueued>>

\* the servings select of the preferences panel, part_009:74-82, rendered
\* when the app is idle (part_007:234)
SelectServings ==
  \E n \in ServingsOptions :
    /\ appState = "idle"
    /\ preferences' = [preferences EXCEPT !.servings = n]
    /\ UNCHANGED <<callVars, appState, inventory, results, error, isRegenerating, history,
                   showHistory, analyses, timeouts, alternatives, started>>
    /\ pending' = FlushedUpdates
    /\ CommittedInEvent(FALSE)

\* handleServingsChange, ResultsView.tsx:32-34, with the values of the slider
\* (:91-98). Its update is rendered at once; a reset effect still pending
\* runs when that render starts and queues its update behind the slider's,
\* for a later render, while an update the effect had queued before is
\* overridden by the slider's
handleServingsChange ==
  \E n \in MinServings..MaxServings :
    /\ ViewShown(appState, results)
    /\ servings' = n
    /\ pending' = FlushedUpdates
    /\ loadDue' = FALSE
    /\ localStorage' = FlushedStorage
    /\ saveDue' = FALSE
    /\ resetDue' = FALSE
    /\ resetQueued' = (resetDue /\ n # preferences.servings)
    /\ UNCHANGED <<callVars, appState, preferences, inventory, results, error, isRegenerating,
                   history, showHistory, analyses, timeouts, alternatives, started>>

---------------------------------------------------------------------------
(* The calls the specifications make. *)

Digits == {NatToString(i) : i \in 0..MaxDigit}

\* quantity tokens: integers, decimals, fractions (zero denominators
\* included) and ranges
Tokens ==
  Digits
  \cup {a \o <<".", "5">> : a \in Digits}
  \cup {a \o <<"/">> \o b : a, b \in Digits}
  \cup {a \o <<"-">> \o b : a, b \in Digits}

Descriptions == {<<"e", "g", "g", "s">>}

\* lines "<token><white space><description>" with and without white space
\* around them
TokenLines ==
  {lead \o t \o sep \o r \o trail :
     lead \in {<<>>, <<" ">>}, t \in Tokens, sep \in {<<" ">>, <<" ", " ">>},
     r \in Descriptions, trail \in {<<>>, <<" ">>}}

\* lines without a quantity, with a quantity only, and quantities the regex
\* takes apart in less obvious ways
OtherLines ==
  {<<>>,
   <<"1", "/", "2", " ", "c", "u", "p", " ", "f", "l", "o", "u", "r">>,
   <<"1", "-", "2", " ", "o", "n", "i", "o", "n", "s">>,
   <<" ">>,
   <<"s", "a", "l", "t", " ", "t", "o", " ", "t", "a", "s", "t", "e">>,
   <<" ", "s", "a", "l", "t", " ">>,
   <<"2">>,
   <<"1", "/", "2">>,
   <<" ", "3", " ">>,
   <<"1", "-", "2">>,
   <<" ", "2", ".", "5">>,
   <<"-", "2", " ", "e", "g", "g", "s">>,
   <<" ", "-", "1", ".", "5", " ", "c", "u", "p", "s", " ">>,
   <<"2", "e", "g", "g", "s">>,
   <<"2", "0", "0", "g", " ", "C", "h", "i", "c", "k", "e", "n">>,
   <<"1", "2", " ", "e", "g", "g", "s">>,
   <<"1", " ", "1", "/", "2", " ", "c", "u", "p", "s", " ", "f", "l", "o", "u", "r">>,
   <<" ", "2", " ", " ", "3", "/", "4", " ", "t", "s", "p">>,
   <<"1", " ", "-", " ", "2", " ", "o", "n", "i", "o", "n", "s">>,
   <<"1", "-", " ", "2", " ", "o", "n", "i", "o", "n", "s">>,
   <<"1", " ", "-", "2", " ", "o", "n", "i", "o", "n", "s">>,
   <<"1", ".", "5", "-", "2", ".", "5", " ", "c", "u", "p", "s">>,
   <<"2", " ", "e", "g", "g", "s", "\n", "s", "a", "l", "t">>,
   <<"2", "\t", "e", "g", "g", "s">>,
   <<"2", "\r", "e", "g", "g", "s">>,
   <<VerticalTab, "2", VerticalTab, "e", "g", "g", "s">>,
   <<"2", NoBreakSpace, "e", "g", "g", "s">>,
   <<NoBreakSpace, "2", " ", "e", "g", "g", "s">>,
   <<"2", " ", NoBreakSpace, "e", "g", "g", "s">>,
   <<"2", " ", NoBreakSpace>>,
   <<"1", "-", NoBreakSpace, "2", " ", "o", "n", "i", "o", "n", "s">>,
   <<"0", ".", "0", "1", NoBreakSpace, "t", "s", "p">>,
   <<"1", NoBreakSpace, "1", "/", "2", " ", "c", "u", "p", "s">>,
   <<"2", OghamSpace, "e">>,
   <<ByteOrderMark, "2", ByteOrderMark, "e", "g", "g", "s", ByteOrderMark>>,
   <<"\r", "2", "\f", "e", "g", "g", "s", "\r", "s", "a", "l", "t">>,
   <<"2", " ", "\n", " ", "e", "g", "g", "s">>,
   <<"1", ".", " ", "e", "g", "g", "s">>,
   <<".", "5", " ", "c", "u", "p">>,
   <<"1", "/", "2", "/", "3", " ", "c", "u", "p", "s">>,
   <<"1", "-", "2", "-", "3", " ", "c", "u", "p", "s">>,
   <<"2", ".", "2", "5", " ", "t", "s", "p", " ", "s", "a", "l", "t">>,
   <<"0", ".", "1", "2", "5", " ", "t", "s", "p">>,
   <<"0", ".", "0", "1", " ", "t", "s", "p">>,
   <<"a", " ", "2", " ", "e", "g", "g", "s">>}

Lines == TokenLines \cup OtherLines

Factors ==
  {One, Rat(1, 2), Rat(3, 2), Rat(2, 1), Rat(3, 1), Rat(1, 3), Rat(2, 3),
   Rat(0, 1), Rat(-1, 1), Rat(-1, 2), NaN, Infinity, NegInfinity}

\* x is a positive finite number
Valid(x) == IsFin(x) /\ x.n > 0

\* the fractional parts at which formatQuantity decides by comparing a value
\* with itself: the edges of its tolerances and the ties of toFixed(1)
Thresholds(negative) ==
  IF negative
  THEN {Rat(5, 100), Rat(15, 100), Rat(35, 100), Rat(45, 100), Rat(55, 100),
        Rat(65, 100), Rat(85, 100), Rat(95, 100)}
  ELSE {Rat(5, 100), Rat(15, 100), Rat(35, 100), Rat(40, 100), Rat(60, 100),
        Rat(65, 100), Rat(85, 100), Rat(95, 100)}

\* value is not on a threshold: the IEEE-754 computation and the exact one
\* take the same branches
Stable(value) ==
  ~IsFin(value) \/ Rem1(NumAbs(value)) \notin Thresholds(value.n < 0)

\* the values formatQuantity is called with: the thousandths up to MaxWhole + 1
Values ==
  {v \in {Rat(k, 1000) : k \in 0..((MaxWhole + 1) * 1000 - 1)} : Stable(v)}

\* the scaled value of a call, Null when the line has no quantity
ScaledValue(parsed, factor) ==
  IF parsed.threw \/ parsed.value = Null THEN Null
  ELSE NumMul(parsed.value, factor)

Scaled(ingredient, factor) ==
  ScaledValue(parseIngredientQuantity(ingredient), factor)

NoOut == [threw |-> FALSE, value |-> Null, text |-> <<>>, str |-> <<>>]

\* the record r a call returned, with the fields it lacks taken from blank
Returned(r, blank) ==
  [f \in DOMAIN blank |-> IF f \in DOMAIN r THEN r[f] ELSE blank[f]]

\* a call of parseIngredientQuantity(argLine)
CallParse ==
  /\ pc = "start"
  /\ pc' = "parsed"
  /\ out' = Returned(parseIngredientQuantity(argLine), NoOut)
  /\ UNCHANGED <<argLine, argFactor, argValue, appVars>>

\* a call of scaleIngredientText(argLine, argFactor)
CallScale ==
  /\ pc = "start"
  /\ pc' = "scaled"
  /\ out' = Returned(scaleIngredientText(argLine, argFactor), NoOut)
  /\ UNCHANGED <<argLine, argFactor, argValue, appVars>>

\* a call of scaleIngredientText(out.str, 1 / argFactor) on the line a call
\* with a positive finite factor returned
CallScaleBack ==
  /\ pc = "scaled"
  /\ Valid(argFactor)
  /\ ~out.threw
  /\ Stable(Scaled(out.str, NumDiv(One, argFactor)))
  /\ pc' = "rescaled"
  /\ out' = Returned(scaleIngredientText(out.str, NumDiv(One, argFactor)), NoOut)
  /\ UNCHANGED <<argLine, argFactor, argValue, appVars>>

\* a call of formatQuantity(argValue)
CallFormat ==
  /\ pc = "start"
  /\ pc' = "formatted"
  /\ out' = [NoOut EXCEPT !.str = formatQuantity(argValue)]
  /\ UNCHANGED <<argLine, argFactor, argValue, appVars>>

\* calls of the parser and the scaler on every line and factor
Init ==
  /\ argLine \in Lines
  /\ argFactor \in Factors
  /\ Stable(Scaled(argLine, argFactor))
  /\ argValue = Rat(0, 1)
  /\ pc = "start"
  /\ out = NoOut
  /\ AppMounted(Null)

Next == CallParse \/ CallScale \/ CallScaleBack

Spec == Init /\ [][Next]_vars

\* calls of the formatter on every value
InitFormat ==
  /\ argLine = <<>>
  /\ argFactor = One
  /\ argValue \in Values
  /\ pc = "start"
  /\ out = NoOut
  /\ AppMounted(Null)

NextFormat == CallFormat

SpecFormat == InitFormat /\ [][NextFormat]_vars

\* the app after its first render, opened with or without a stored history
InitApp ==
  /\ argLine = <<>>
  /\ argFactor = One
  /\ argValue = Rat(0, 1)
  /\ pc = "start"
  /\ out = NoOut
  /\ \E stored \in SavedStores : AppMounted(stored)

NextApp ==
  \/ Effects
  \/ Render
  \/ handleAnalyze
  \/ AnalyzeResolves
  \/ AnalyzeRejects
  \/ TimeoutFires
  \/ handleStartOver
  \/ handleGoHome
  \/ ToggleHistory
  \/ CloseHistory
  \/ handleLoadHistory
  \/ handleGenerateAlternatives
  \/ AlternativesResolve
  \/ AlternativesReject

SpecApp == InitApp /\ [][NextApp]_vars

\* the results view over the responses of the history: the servings are
\* chosen in the preferences and with the slider
NextView ==
  \/ Effects
  \/ Render
  \/ handleStartOver
  \/ handleGoHome
  \/ ToggleHistory
  \/ CloseHistory
  \/ handleLoadHistory
  \/ handleGenerateAlternatives
  \/ AlternativesResolve
  \/ AlternativesReject
  \/ SelectServings
  \/ handleServingsChange

SpecView == InitApp /\ [][NextView]_vars

---------------------------------------------------------------------------
(* Claims about scaleIngredientText, checked under Spec. *)

\* |x - y| < t
Within(x, y, t) == NumLt(NumAbs(NumSub(x, y)), t)

\* x <= y
NumLe(x, y) == ~NumLt(y, x)

Found(ingredient) == parseIngredientQuantity(ingredient).value # Null

\* C1: scaleIngredientText(line, 1) returns the line exactly unchanged, for
\* every line, with or without a quantity and with any white space.
C1_Identity ==
  (pc = "scaled" /\ argFactor = One) => (~out.threw /\ out.str = argLine)

\* a line with a quantity, white space in front of it and two white space
\* characters behind it has been scaled by 1
C1_Witness ==
  /\ pc = "scaled" /\ argFactor = One
  /\ argLine = <<" ", "2", " ", " ", "e", "g", "g", "s">>
  /\ out.str = argLine

\* C2: when the parser finds no quantity, scaleIngredientText returns the
\* input exactly unchanged, white space included, for every factor.
C2_PassThrough ==
  (pc = "scaled" /\ ~Found(argLine)) => (~out.threw /\ out.str = argLine)

\* a line without a quantity and with white space around it has been scaled
\* by a factor other than 1
C2_Witness ==
  /\ pc = "scaled" /\ argFactor = Rat(3, 2)
  /\ argLine = <<" ", "s", "a", "l", "t", " ">>
  /\ ~Found(argLine)
  /\ out.str = argLine

\* formatQuantity(m * f), one space, r
QuantityThenRemainder(parsed, f) ==
  formatQuantity(NumMul(parsed.value, f)) \o <<" ">> \o parsed.text

\* C3: when the parser finds magnitude m and remainder r and the factor f is
\* not 1, the result is formatQuantity(m * f), one space, r, whatever the
\* white space of the input; ("2 eggs", 1.5) gives "3 eggs", ("1/2 cup
\* flour", 2) gives "1 cup flour" and ("1-2 onions", 2) gives "3 onions".
C3_Scaled ==
  pc = "scaled" =>
    /\ (Found(argLine) /\ argFactor # One) =>
         /\ ~out.threw
         /\ out.str = QuantityThenRemainder(parseIngredientQuantity(argLine), argFactor)
    /\ (argLine = <<"2", " ", "e", "g", "g", "s">> /\ argFactor = Rat(3, 2)) => out.str = <<"3", " ", "e", "g", "g", "s">>
    /\ (argLine = <<"1", "/", "2", " ", "c", "u", "p", " ", "f", "l", "o", "u", "r">> /\ argFactor = Rat(2, 1)) => out.str = <<"1", " ", "c", "u", "p", " ", "f", "l", "o", "u", "r">>
    /\ (argLine = <<"1", "-", "2", " ", "o", "n", "i", "o", "n", "s">> /\ argFactor = Rat(2, 1)) => out.str = <<"3", " ", "o", "n", "i", "o", "n", "s">>
    /\ (argLine = <<" ", "2", " ", " ", "e", "g", "g", "s">> /\ argFactor = Rat(3, 2)) => out.str = <<"3", " ", "e", "g", "g", "s">>

\* " 2  eggs", with white space in front of the quantity and two spaces
\* behind it, has been scaled by 1.5 to "3 eggs"
C3_Witness ==
  /\ pc = "scaled" /\ argFactor = Rat(3, 2)
  /\ argLine = <<" ", "2", " ", " ", "e", "g", "g", "s">>
  /\ out.str = <<"3", " ", "e", "g", "g", "s">>

\* C4: a factor that is zero, negative, NaN or infinite makes the call fail
\* (InvalidScaleFactor) for every line; no line is returned.
C4_InvalidFactorRejected ==
  (pc = "scaled" /\ ~Valid(argFactor)) => out.threw

\* the leading token of the trimmed line is a fraction with denominator 0
ZeroDenominator(ingredient) ==
  LET t == trim(ingredient)
      e == FractionEnd(t)
  IN  /\ SpaceFollows(t, e)
      /\ Number(split(SubSeq(t, 1, e), "/")[2]) = Rat(0, 1)

\* C5: a line whose leading token is a fraction with a zero denominator has
\* no quantity: the parser reports no magnitude and scaling returns the line
\* unchanged for every valid factor.
C5_ZeroDenominatorPassThrough ==
  ZeroDenominator(argLine) =>
    /\ pc = "parsed" => out.value = Null
    /\ (pc = "scaled" /\ Valid(argFactor)) => out.str = argLine

\* C6: for every line and every positive finite factor the call completes
\* and returns a string, which is the input unchanged or a formatted
\* quantity, a space and the remainder; no line makes the parser or the
\* scaler raise.
C6_NeverRaises ==
  /\ pc = "parsed" => ~out.threw
  /\ (pc = "scaled" /\ Valid(argFactor)) =>
       /\ ~out.threw
       /\ \/ out.str = argLine
          \/ /\ Found(argLine)
             /\ Len(out.str) >= 2 + Len(parseIngredientQuantity(argLine).text)

\* a line of white space only has been scaled by 2 without a raise
C6_Witness ==
  /\ pc = "scaled" /\ argFactor = Rat(2, 1)
  /\ argLine = <<" ">>
  /\ ~out.threw /\ out.str = argLine

\* C11: for every line with a parseable quantity m and every positive finite
\* factor f, scaling by f and then scaling the result by 1/f gives a line
\* whose parsed quantity is within 0.05 of m.
C11_RoundTrip ==
  (pc = "rescaled" /\ Found(argLine) /\ IsFin(parseIngredientQuantity(argLine).value)) =>
    /\ Found(out.str)
    /\ Within(parseIngredientQuantity(out.str).value,
              parseIngredientQuantity(argLine).value, IntegerTolerance)

---------------------------------------------------------------------------
(* Claims about parseIngredientQuantity, checked under Spec. *)

\* the quantity tokens and the numbers they denote: integers, decimals,
\* fractions with a denominator other than 0, ranges
TokenTable ==
  {[token |-> NatToString(i), value |-> Rat(i, 1)] : i \in 0..(MaxWhole + 2)}
  \cup {[token |-> NatToString(a) \o <<".", "5">>, value |-> Rat(2 * a + 1, 2)] :
          a \in 0..MaxDigit}
  \cup {[token |-> NatToString(a) \o <<"/">> \o NatToString(b), value |-> Rat(a, b)] :
          a \in 0..MaxDigit, b \in 1..MaxDigit}
  \cup {[token |-> NatToString(a) \o <<"-">> \o NatToString(b), value |-> Rat(a + b, 2)] :
          a \in 0..MaxDigit, b \in 0..MaxDigit}
  \cup {[token |-> <<"1", ".", "5", "-", "2", ".", "5">>, value |-> Rat(2, 1)]}

\* the text of line behind token and one more character
RestAfter(line, token) == SubSeq(line, Len(token) + 2, Len(line))

\* line is trimmed, on one line, and is token, a space and a rest
HasForm(line, token) ==
  /\ Len(line) >= Len(token) + 2
  /\ SubSeq(line, 1, Len(token)) = token
  /\ line[Len(token) + 1] = " "
  /\ ~IsSpace(line[Len(line)])
  /\ \A i \in (Len(token) + 2)..Len(line) : line[i] \notin LineTerminators
  /\ ~IsSpace(line[Len(token) + 2])

\* C12: for a trimmed line "<token> <rest>" the parser returns as magnitude
\* the number n for an integer or decimal token n, a/b for a fraction token
\* a/b with b not 0 and (a+b)/2 for a range token a-b (1-2 gives 1.5,
\* 1.5-2.5 gives 2), and <rest> as the remainder.
C12_TokenValue ==
  pc = "parsed" =>
    /\ \A e \in TokenTable :
         HasForm(argLine, e.token) =>
           (out.value = e.value /\ out.text = RestAfter(argLine, e.token))
    /\ argLine = <<"1", "-", "2", " ", "o", "n", "i", "o", "n", "s">> =>
         out.value = Rat(3, 2)

\* "1.5-2.5 cups" has been parsed as magnitude 2 and remainder "cups"
C12_Witness ==
  /\ pc = "parsed"
  /\ argLine = <<"1", ".", "5", "-", "2", ".", "5", " ", "c", "u", "p", "s">>
  /\ out.value = Rat(2, 1)
  /\ out.text = <<"c", "u", "p", "s">>

\* the first token of the trimmed line starts with "-" and a digit
NegativeFirst(line) ==
  /\ Len(trim(line)) >= 2
  /\ trim(line)[1] = "-"
  /\ IsDigit(trim(line)[2])

\* C13: whenever the parser finds no quantity it returns a null magnitude
\* and a remainder identical to the original, untrimmed input; this is the
\* result for every line whose first token is a negative number ("-2 eggs").
C13_NoQuantity ==
  pc = "parsed" =>
    /\ out.value = Null => out.text = argLine
    /\ NegativeFirst(argLine) => (out.value = Null /\ out.text = argLine)

\* " -1.5 cups ", a negative number with white space around the line, has
\* been parsed: no magnitude, the line itself as remainder
C13_Witness ==
  /\ pc = "parsed"
  /\ argLine = <<" ", "-", "1", ".", "5", " ", "c", "u", "p", "s", " ">>
  /\ NegativeFirst(argLine)
  /\ out.value = Null
  /\ out.text = argLine

\* the line is a quantity token, with or without white space around it
QuantityOnly(line) == \E e \in TokenTable : trim(line) = e.token

\* C14: a line that consists only of a quantity token ("2", "1/2", " 3 ") is
\* reported as having no quantity, so scale leaves it unchanged; whenever a
\* quantity is found the remainder is non-empty and starts with a
\* non-whitespace character.
C14_RemainderRequired ==
  /\ (pc = "parsed" /\ QuantityOnly(argLine)) => out.value = Null
  /\ (pc = "scaled" /\ QuantityOnly(argLine)) => out.str = argLine
  /\ (pc = "parsed" /\ out.value # Null) =>
       (out.text # <<>> /\ ~IsSpace(out.text[1]))

\* " 3 " has been scaled by 2 and returned unchanged
C14_Witness ==
  /\ pc = "scaled" /\ argFactor = Rat(2, 1)
  /\ argLine = <<" ", "3", " ">>
  /\ QuantityOnly(argLine)
  /\ out.str = argLine

Letters ==
  {"a", "b", "c", "d", "e", "f", "g", "h", "i", "j", "k", "l", "m", "n", "o",
   "p", "q", "r", "s", "t", "u", "v", "w", "x", "y", "z", "C"}

\* the line starts with a number, with or without a unit attached to it, and
\* goes on behind a space: the formats the recipe schema gives as examples
\* ("2 eggs", "200g Chicken")
SchemaFormat(line) ==
  /\ DigitsEnd(line, 1) >= 1
  /\ DigitsEnd(line, 1) < Len(line)
  /\ line[DigitsEnd(line, 1) + 1] \in Letters \cup {" "}
  /\ \E i \in 1..Len(line) : line[i] = " "
  /\ ~IsSpace(line[Len(line)])

\* C16: when the servings differ from the base servings (the factor is a
\* positive finite number other than 1), every line in one of the formats
\* the recipe schema names ("2 eggs", "200g Chicken") is recognised as
\* having a quantity and is displayed with that number scaled.
C16_SchemaFormatsScaled ==
  (pc = "scaled" /\ Valid(argFactor) /\ argFactor # One /\ SchemaFormat(argLine)) =>
    /\ Found(argLine)
    /\ out.str = QuantityThenRemainder(parseIngredientQuantity(argLine), argFactor)

\* the end of the first white-space-delimited token of a trimmed line
TokenEnd(t) == RunEnd(t, 1, SpaceChars, FALSE)

\* the text of t behind the run of white space that follows t[e]
AfterRun(t, e) == SubSeq(t, RunEnd(t, e + 1, SpaceChars, TRUE) + 1, Len(t))

\* s up to its first line terminator
FirstLine(s) == SubSeq(s, 1, RunEnd(s, 1, LineTerminators, FALSE))

OneLine(s) == \A i \in 1..Len(s) : s[i] \notin LineTerminators

\* C18 as stated: the quantity is exactly the first white-space-delimited
\* token of the trimmed line, and the remainder is everything that follows
\* the first run of white space.
C18_FirstTokenOnly ==
  (pc = "parsed" /\ out.value # Null /\ OneLine(argLine)) =>
    out.text = AfterRun(trim(argLine), TokenEnd(trim(argLine)))

\* the end of the second token when the first token ends with "-", of the
\* first token otherwise
QuantityEnd(t) ==
  IF t[TokenEnd(t)] = "-"
  THEN RunEnd(t, RunEnd(t, TokenEnd(t) + 1, SpaceChars, TRUE) + 1, SpaceChars, FALSE)
  ELSE TokenEnd(t)

\* C18 as amended: the quantity is the first white-space-delimited token of
\* the trimmed line, or, when that token is a number with a dash behind it,
\* the first two tokens read as a range ("1- 2 onions" is 1.5 and "onions");
\* the remainder is what follows the white space behind the quantity, up to
\* the first line break.
C18_QuantityExtent ==
  pc = "parsed" =>
    /\ out.value # Null =>
         out.text = FirstLine(AfterRun(trim(argLine), QuantityEnd(trim(argLine))))
    /\ argLine = <<"1", "-", " ", "2", " ", "o", "n", "i", "o", "n", "s">> =>
         (out.value = Rat(3, 2) /\ out.text = <<"o", "n", "i", "o", "n", "s">>)
    /\ argLine = <<"1", " ", "-", " ", "2", " ", "o", "n", "i", "o", "n", "s">> =>
         (out.value = Rat(1, 1) /\ out.text = <<"-", " ", "2", " ", "o", "n", "i", "o", "n", "s">>)

\* "1- 2 onions" has been parsed as the range 1-2 with remainder "onions"
C18_Witness ==
  /\ pc = "parsed"
  /\ argLine = <<"1", "-", " ", "2", " ", "o", "n", "i", "o", "n", "s">>
  /\ out.value = Rat(3, 2)
  /\ out.text = <<"o", "n", "i", "o", "n", "s">>

\* the call scaled a positive quantity by a positive factor to less than
\* 0.05
Tiny(line, factor) ==
  /\ Found(line)
  /\ Valid(parseIngredientQuantity(line).value)
  /\ Valid(factor)
  /\ NumLt(Scaled(line, factor), IntegerTolerance)

ZeroThenRemainder(parsed) == <<"0", " ">> \o parsed.text

\* C27 as stated: formatQuantity(v) is "0" for every v with 0 < v < 0.05,
\* hence every line whose positive quantity, multiplied by a positive factor,
\* falls below 0.05 is displayed as "0 <remainder>".
C27_TinyShownAsZero ==
  (pc = "scaled" /\ Tiny(argLine, argFactor)) =>
    /\ formatQuantity(Scaled(argLine, argFactor)) = <<"0">>
    /\ out.str = ZeroThenRemainder(parseIngredientQuantity(argLine))

\* C27 as amended: formatQuantity(v) is "0" for every v with 0 < v < 0.05,
\* hence every line whose positive quantity, multiplied by a positive factor
\* other than 1, falls below 0.05 is displayed as "0 <remainder>"; for the
\* factor 1 the line is displayed as it is.
C27_TinyScaledShownAsZero ==
  (pc = "scaled" /\ Tiny(argLine, argFactor)) =>
    /\ formatQuantity(Scaled(argLine, argFactor)) = <<"0">>
    /\ \A k \in 1..49 : formatQuantity(Rat(k, 1000)) = <<"0">>
    /\ argFactor # One => out.str = ZeroThenRemainder(parseIngredientQuantity(argLine))
    /\ argFactor = One => out.str = argLine

\* "0.125 tsp" has been scaled by 1/3 and is displayed as "0 tsp"
C27_Witness ==
  /\ pc = "scaled" /\ argFactor = Rat(1, 3)
  /\ argLine = <<"0", ".", "1", "2", "5", " ", "t", "s", "p">>
  /\ Tiny(argLine, argFactor)
  /\ out.str = <<"0", " ", "t", "s", "p">>

\* the trimmed line is the whole number a, white space, a fraction, white
\* space and a rest
MixedNumber(line, a) ==
  /\ OneLine(line)
  /\ SubSeq(trim(line), 1, TokenEnd(trim(line))) = NatToString(a)
  /\ SpaceFollows(AfterRun(trim(line), TokenEnd(trim(line))),
                  FractionEnd(AfterRun(trim(line), TokenEnd(trim(line)))))

\* C28: a mixed-number line "a b/c rest" ("1 1/2 cups flour") is parsed with
\* magnitude a alone and remainder "b/c rest": scaling multiplies only the
\* whole number a and leaves the fraction b/c unscaled in the output text.
C28_MixedNumber ==
  \A a \in 0..MaxDigit :
    MixedNumber(argLine, a) =>
      /\ pc = "parsed" =>
           /\ out.value = Rat(a, 1)
           /\ out.text = AfterRun(trim(argLine), TokenEnd(trim(argLine)))
      /\ (pc = "scaled" /\ argFactor # One /\ Valid(argFactor)) =>
           out.str = formatQuantity(Rat(a * argFactor.n, argFactor.d)) \o <<" ">>
                       \o AfterRun(trim(argLine), TokenEnd(trim(argLine)))

\* "1 1/2 cups flour" has been scaled by 2 to "2 1/2 cups flour"
C28_Witness ==
  /\ pc = "scaled" /\ argFactor = Rat(2, 1)
  /\ argLine = <<"1", " ", "1", "/", "2", " ", "c", "u", "p", "s", " ", "f", "l", "o", "u", "r">>
  /\ MixedNumber(argLine, 1)
  /\ out.str = <<"2", " ", "1", "/", "2", " ", "c", "u", "p", "s", " ", "f", "l", "o", "u", "r">>

---------------------------------------------------------------------------
(* Claims about ResultsView, checked under SpecApp and SpecView. *)

\* every line of the recipe is returned unchanged for the factor
LinesUntouched(recipe, factor) ==
  \A i \in 1..Len(recipe.ingredients) :
    scaleIngredientText(recipe.ingredients[i], factor).str = recipe.ingredients[i]

\* baseServings is positive: a positive rational, the smallest positive
\* number or Infinity
PositiveBase(recipe) ==
  \/ Valid(recipe.baseServings)
  \/ recipe.baseServings \in {MinValue, Infinity}

\* the factor of a recipe for n servings is n / baseServings, or n / 2 when
\* baseServings is missing or 0; it is positive and finite when baseServings
\* is missing, 0 or positive, and 1 when n equals the base
FactorRight(n, recipe) ==
  /\ recipe.baseServings \in {Undefined, Rat(0, 1)} =>
       scaleFactor(n, recipe) = Rat(n, DefaultBase)
  /\ Valid(recipe.baseServings) =>
       scaleFactor(n, recipe) = Rat(n * recipe.baseServings.d, recipe.baseServings.n)
  /\ (recipe.baseServings \in {Undefined, Rat(0, 1)} \/ PositiveBase(recipe)) =>
       Valid(scaleFactor(n, recipe))
  /\ (Valid(recipe.baseServings) /\ Rat(n, 1) = recipe.baseServings) =>
       (scaleFactor(n, recipe) = One /\ LinesUntouched(recipe, scaleFactor(n, recipe)))
  /\ (recipe.baseServings \in {Undefined, Rat(0, 1)} /\ n = DefaultBase) =>
       (scaleFactor(n, recipe) = One /\ LinesUntouched(recipe, scaleFactor(n, recipe)))

FactorsRight(n, data) ==
  \A i \in 1..Len(data.recipes) : FactorRight(n, data.recipes[i])

\* new data on display has the preferred servings or a reset outstanding,
\* and an outstanding reset ends, while the view stays, with the preferred
\* servings unless the slider is moved after the effect has run
ResetOnNewData ==
  /\ (ViewShown(appState', results') /\ results' # results) =>
       (resetDue' \/ resetQueued' \/ servings' = preferences'.servings)
  /\ ((resetDue \/ resetQueued) /\ ~(resetDue' \/ resetQueued')
        /\ ViewShown(appState', results')) =>
       (servings' = preferences'.servings \/ handleServingsChange)

\* C17: the factor handed to each RecipeCard is servings / base, where base
\* is recipe.baseServings, or 2 when that is missing or 0, and servings is
\* always an integer from 1 to 12, reset to the preferred servings whenever
\* new result data arrives; so the factor is positive and finite for a
\* baseServings that is missing, 0 or positive, and exactly 1, leaving the
\* ingredient lines untouched, when servings equals base.
C17_PositiveBase ==
  [][/\ servings' \in MinServings..MaxServings
     /\ ViewShown(appState', results') => FactorsRight(servings', results')
     /\ ResetOnNewData]_vars

\* the queue of results holds one update, the updater of part_007:98-102
OneRegeneration == Len(pending.results) = 1 /\ pending.results[1].fn

\* C23: when generating alternatives succeeds while a result is displayed,
\* the new result replaces recipes and reasoning and keeps the previous
\* detectedIngredients and receiptData; when the request fails the displayed
\* result is left unchanged; in both cases isRegenerating, set to true at the
\* start, returns to false. The continuation queues the updates and the
\* render that follows applies them.
C23_Regenerate ==
  [][/\ handleGenerateAlternatives => isRegenerating'
     /\ AlternativesResolve =>
          /\ \E newResponse \in AlternativeResponses :
               pending'.results = Append(pending.results,
                                         [fn |-> TRUE, val |-> newResponse])
          /\ pending'.isRegenerating = <<FALSE>>
     /\ AlternativesReject =>
          /\ results' = results
          /\ pending'.results = pending.results
          /\ pending'.isRegenerating = <<FALSE>>
     /\ (Render /\ OneRegeneration /\ ViewShown(appState, results)) =>
          /\ results'.recipes = pending.results[1].val.recipes
          /\ results'.reasoning = pending.results[1].val.reasoning
          /\ results'.detectedIngredients = results.detectedIngredients
          /\ results'.receiptData = results.receiptData
     /\ (Render /\ Len(pending.results) = 0) => results' = results
     /\ (Render /\ Len(pending.isRegenerating) > 0) => ~isRegenerating']_vars

\* other recipes and their reasoning are on display with the detected
\* ingredients and the receipt of the analysis they replaced
C23_Witness ==
  /\ ViewShown(appState, results)
  /\ results.recipes = RecipesOther
  /\ results.reasoning = "something else"
  /\ results.detectedIngredients = <<"milk", "egg">>
  /\ results.receiptData = [storeName |-> "shop"]
  /\ ~isRegenerating

---------------------------------------------------------------------------
(* Claims about the App component, checked under SpecApp. *)

Range(s) == {s[i] : i \in 1..Len(s)}

NoDuplicates(s) == \A i, j \in 1..Len(s) : s[i] = s[j] => i = j

\* C19: after every successful analysis the inventory is duplicate-free and
\* contains every ingredient it held just before the response was applied
\* and every ingredient the response detected; under any interleaving of
\* analyses, Go Home and history loading the inventory loses an ingredient
\* only through Start Over.
C19_InventoryMerged ==
  [][/\ (Render /\ Len(pending.inventory) > 0) =>
          /\ NoDuplicates(inventory')
          /\ Range(inventory) \subseteq Range(inventory')
          /\ \E response \in Responses :
               Range(response.detectedIngredients) \subseteq Range(inventory')
     /\ Range(inventory) \subseteq Range(inventory') \/ handleStartOver]_vars

\* nothing is on display and nothing is remembered
Cleared ==
  /\ appState = "idle"
  /\ results = Null
  /\ error = Null
  /\ inventory = <<>>
  /\ history = <<>>

\* C20: after Start Over the app is idle and results, error, inventory and
\* recipe history are all empty, and they stay so until the user starts a
\* new analysis.
C20_StartOverClears ==
  [][/\ handleStartOver => Cleared'
     /\ (Cleared /\ analyses = {} /\ timeouts = 0 /\ ~alternatives
           /\ pending = NoUpdates /\ ~handleAnalyze)
          => Cleared']_vars

\* C21: Go Home puts the app in the idle state with results and error
\* cleared and the history panel closed, and leaves the inventory, the
\* recipe history and the user preferences unchanged.
C21_GoHomeFrame ==
  [][handleGoHome =>
       /\ appState' = "idle" /\ results' = Null /\ error' = Null
       /\ showHistory' = FALSE
       /\ inventory' = inventory
       /\ history' = history
       /\ preferences' = preferences]_vars

\* the app is idle with nothing on display after an analysis, and inventory
\* and history still hold what the analysis put there: Go Home, not Start
\* Over, led here
C21_Witness ==
  /\ appState = "idle" /\ results = Null /\ error = Null /\ ~showHistory
  /\ started = 1 /\ analyses = {} /\ timeouts = 0
  /\ inventory = <<"milk", "egg">>
  /\ Len(history) = 1
  /\ history[1].detectedIngredients = inventory

\* the first n entries of s, all of s when it has fewer
FirstEntries(s, n) == [i \in 1..(IF Len(s) < n THEN Len(s) ELSE n) |-> s[i]]

\* the entries of s, the last one first
Newest(s) == [i \in 1..Len(s) |-> s[Len(s) + 1 - i]]

\* the entry as JSON keeps it: a baseServings that is not a finite number
\* is null
AsJson(entry) ==
  [entry EXCEPT !.recipes =
     [i \in 1..Len(entry.recipes) |->
        [entry.recipes[i] EXCEPT !.baseServings =
           IF @ \in {Infinity, NegInfinity, NaN} THEN Null ELSE @]]]

\* the stored history waits first in the queue q, read when the app was
\* opened
LoadWaits(q) == Len(q) > 0 /\ ~q[1].fn

\* the results that analyses queued in q, in their order
Queued(q) ==
  [i \in 1..(IF LoadWaits(q) THEN Len(q) - 1 ELSE Len(q)) |->
     q[IF LoadWaits(q) THEN i + 1 ELSE i].val]

\* each successful analysis queues its merged result for results and for
\* the history; what is queued leaves the queue in a render, which puts it
\* in front of the history (of the stored history, when that is rendered
\* with it), the newest first, and drops the entries beyond the 20th; no
\* other step changes the history
NewestFirst ==
  /\ timeouts' = timeouts + 1 =>
       /\ Len(pending'.history) = Len(pending.history) + 1
       /\ pending'.history[Len(pending'.history)].fn
       /\ pending'.history[Len(pending'.history)].val
            = pending'.results[Len(pending'.results)].val
       /\ pending'.history[Len(pending'.history)].val.detectedIngredients
            = pending'.inventory[Len(pending'.inventory)]
       /\ SubSeq(pending'.history, 1, Len(pending.history)) = pending.history
  /\ \A i \in 2..Len(pending.history) : pending.history[i].fn
  /\ (Len(pending.history) > 0 /\ Len(pending'.history) = 0) =>
       /\ Render
       /\ history' =
            FirstEntries(Newest(Queued(pending.history))
                           \o (IF LoadWaits(pending.history) THEN pending.history[1].val
                               ELSE history),
                         HistoryLimit)
  /\ (Len(pending.history) = 0 \/ Len(pending'.history) > 0) => history' = history

\* C22 as stated: the recipe history never holds more than 20 entries and is
\* ordered newest first: each successful analysis puts its merged result at
\* index 0 and drops the entries beyond the 20th, and the value persisted
\* under 'chefbyte_history' is always the first 20 entries of the current
\* non-empty history.
C22_PersistedAlways ==
  /\ [](/\ Len(history) <= HistoryLimit
        /\ history # <<>> =>
             /\ localStorage # Null
             /\ localStorage = FirstEntries(history, HistoryLimit))
  /\ [][NewestFirst]_vars

\* C22: the recipe history never holds more than 20 entries and is ordered
\* newest first: each successful analysis puts its merged result at index 0
\* and drops the entries beyond the 20th, and once the effect that saves
\* the history has run after the last change of it, the value persisted
\* under 'chefbyte_history' is the first 20 entries of the current non-empty
\* history as JSON keeps them, a number that is not finite being null.
C22_HistoryBounded ==
  /\ [](/\ Len(history) <= HistoryLimit
        /\ (history # <<>> /\ ~saveDue) =>
             localStorage = [i \in 1..Len(FirstEntries(history, HistoryLimit)) |->
                               AsJson(history[i])])
  /\ [][NewestFirst]_vars

\* an analysis has completed over a saved history of 20 entries and its
\* history is saved: its result is the first entry, with null for the
\* infinite baseServings of a recipe, and the oldest saved entry is gone
C22_Witness ==
  /\ Len(history) = HistoryLimit
  /\ history[1].id = 1
  /\ history[1].recipes = RecipesZero
  /\ history[1].recipes[3].baseServings = Infinity
  /\ history[HistoryLimit].id = 102
  /\ ~saveDue
  /\ localStorage[1].id = 1
  /\ localStorage[1].recipes[3].baseServings = Null
  /\ localStorage[HistoryLimit] = history[HistoryLimit]

\* C24: whenever appState is 'results' the results value is non-null, so
\* the results screen is never blank, under every interleaving of analysis
\* completion, the delayed switch to 'results', Go Home, Start Over and
\* loading from history.
C24_ResultsNeverBlank == appState = "results" => results # Null

---------------------------------------------------------------------------
(* Claims about formatQuantity, checked under SpecFormat. *)

\* C7: a non-negative value within 0.05 of an integer, above it or below it,
\* is rendered as that integer in plain digits: no decimal point, no ".0".
C7_NearInteger ==
  pc = "formatted" =>
    \A i \in 0..(MaxWhole + 1) :
      Within(argValue, Rat(i, 1), IntegerTolerance) => out.str = NatToString(i)

\* 2.97, just below 3, has been rendered "3"
C7_Witness ==
  /\ pc = "formatted" /\ argValue = Rat(297, 100)
  /\ out.str = <<"3">>

\* C8: a value whose fractional part is 0.25, 0.33, 0.5 or 0.75 is rendered
\* "1/4", "1/3", "1/2", "3/4" when its whole part is 0 and "<whole>.25",
\* "<whole>.33", "<whole>.5", "<whole>.75" otherwise.
C8_CommonFractions ==
  pc = "formatted" =>
    LET f == Rem1(argValue)
        w == IntToString(Floor(argValue))
        zero == Floor(argValue) = 0
    IN  /\ f = Quarter => out.str = IF zero THEN <<"1", "/", "4">> ELSE w \o <<".", "2", "5">>
        /\ f = Third => out.str = IF zero THEN <<"1", "/", "3">> ELSE w \o <<".", "3", "3">>
        /\ f = Half => out.str = IF zero THEN <<"1", "/", "2">> ELSE w \o <<".", "5">>
        /\ f = ThreeQuarters => out.str = IF zero THEN <<"3", "/", "4">> ELSE w \o <<".", "7", "5">>

\* s is digits, or digits "." digits
IsPlainNumber(s) ==
  /\ DigitsEnd(s, 1) >= 1
  /\ \/ DigitsEnd(s, 1) = Len(s)
     \/ /\ DigitsEnd(s, 1) + 2 <= Len(s)
        /\ s[DigitsEnd(s, 1) + 1] = "."
        /\ DigitsEnd(s, DigitsEnd(s, 1) + 2) = Len(s)

\* C9: for a value of 1 or more the output is an integer or a decimal number,
\* without '/' or space: never a mixed fraction; a bare fraction is rendered
\* only when the whole part is 0.
C9_NoMixedFraction ==
  pc = "formatted" =>
    /\ NumLe(One, argValue) =>
         /\ IsPlainNumber(out.str)
         /\ ~includes(out.str, "/") /\ ~includes(out.str, " ")
    /\ includes(out.str, "/") => Floor(argValue) = 0
    /\ argValue = Rat(3, 2) => out.str = <<"1", ".", "5">>

\* 1.5 has been rendered "1.5"
C9_Witness ==
  /\ pc = "formatted" /\ argValue = Rat(3, 2)
  /\ out.str = <<"1", ".", "5">>

\* value is farther than 0.05 from every integer and its fractional part is
\* farther than 0.1 from 0.25, 0.33, 0.5 and 0.75
NoCleanForm(value) ==
  /\ \A i \in 0..(MaxWhole + 1) : ~Within(value, Rat(i, 1), IntegerTolerance)
  /\ \A t \in {Quarter, Third, Half, ThreeQuarters} :
       ~Within(Rem1(value), t, FractionTolerance)

\* C10: a non-negative value that is neither within 0.05 of an integer nor
\* has a fractional part within 0.1 of 0.25, 0.33, 0.5 or 0.75 is rendered as
\* the nearest number with one decimal place, whose decimal is never 0.
C10_OneDecimal ==
  (pc = "formatted" /\ NoCleanForm(argValue)) =>
    \E i \in 0..(10 * (MaxWhole + 1)) :
      /\ NumLe(NumAbs(NumSub(argValue, Rat(i, 10))), IntegerTolerance)
      /\ i % 10 # 0
      /\ out.str = NatToString(i \div 10) \o <<".", Digit[(i % 10) + 1]>>

\* 0.89 has no clean form and has been rendered "0.9"
C10_Witness ==
  /\ pc = "formatted" /\ argValue = Rat(89, 100)
  /\ NoCleanForm(argValue)
  /\ out.str = <<"0", ".", "9">>

\* the number a rendered quantity denotes, "1/4", "1/3", "1/2" and "3/4" read
\* as 0.25, 0.33, 0.5 and 0.75
Denoted(str) ==
  IF str = <<"1", "/", "4">> THEN Quarter
  ELSE IF str = <<"1", "/", "3">> THEN Third
  ELSE IF str = <<"1", "/", "2">> THEN Half
  ELSE IF str = <<"3", "/", "4">> THEN ThreeQuarters
  ELSE Number(str)

\* C25: for every non-negative finite value v the number denoted by
\* formatQuantity(v) differs from v by less than 0.1.
C25_CloseToValue ==
  pc = "formatted" =>
    /\ IsPlainNumber(out.str) \/ includes(out.str, "/")
    /\ Within(Denoted(out.str), argValue, FractionTolerance)

\* 1.39 has been rendered "1.33", 0.06 away
C25_Witness ==
  /\ pc = "formatted" /\ argValue = Rat(139, 100)
  /\ out.str = <<"1", ".", "3", "3">>
  /\ Denoted(out.str) = Rat(133, 100)

\* the values of Values that follow v: the next thousandth, and the one
\* after it when the next is left out
Following(v) ==
  {w \in {NumAdd(v, Rat(1, 1000)), NumAdd(v, Rat(2, 1000))} : w \in Values}

\* C26: formatQuantity preserves order on non-negative values: if v <= w
\* then the number denoted by formatQuantity(v) is at most the number denoted
\* by formatQuantity(w).  Stated for each value and the values that follow it
\* in Values, from which every pair follows.
C26_OrderPreserved ==
  pc = "formatted" =>
    \A w \in Following(argValue) :
      NumLe(Denoted(out.str), Denoted(formatQuantity(w)))

\* 1.399 has been rendered "1.33" and the value that follows it, 1.401,
\* is rendered "1.5"
C26_Witness ==
  /\ pc = "formatted" /\ argValue = Rat(1399, 1000)
  /\ out.str = <<"1", ".", "3", "3">>
  /\ Following(argValue) = {Rat(1401, 1000)}
  /\ formatQuantity(Rat(1401, 1000)) = <<"1", ".", "5">>

===========================================================================
